---- MODULE Spec2Model ----
(***************************************************************************)
(* lc-m4 (src/src/main.rs): the command line is parsed into a list of      *)
(* flags, then main runs the flags in order.  A File flag is scanned by    *)
(* process_text, a ReloadState flag is decoded by exec_reload_state.  The  *)
(* macro table (def_stack), the diversion store (cur_diversion,            *)
(* diversion_data) and the delimiters are owned by main and handed to      *)
(* every input.                                                            *)
(*                                                                         *)
(* Input bytes are read lazily: every data.next() of the code is a draw    *)
(* from a small byte set (or None at end of input), so one step of the     *)
(* model is one iteration of one loop of the code.  A Rust String is a     *)
(* sequence of chars (code points 0..255, from `c as char`); the primary   *)
(* output is a sequence of bytes, the UTF-8 encoding print! writes.        *)
(***************************************************************************)
EXTENDS Integers, Sequences, FiniteSets, TLC

(* ------------------------------ bounds -------------------------------- *)
MaxArgs == 2
MaxFileLen == 3
\* the input a run may read: a byte of a reload-state stream takes one unit,
\* a byte of a file FileByteCost units
MaxBytes == 11
FileByteCost == 3

(* ------------------------- program constants -------------------------- *)
None == -1
B_TAB == 9
B_NL == 10
B_CR == 13
B_SP == 32
B_HASH == 35
B_APOS == 39
B_COMMA == 44
B_MINUS == 45
B_ZERO == 48
B_ONE == 49
B_C == 67
B_D == 68
B_F == 70
B_Q == 81
B_T == 84
B_V == 86
B_BQUOTE == 96
DefaultNestingLimit == 1024

(* -------------------------- input alphabets --------------------------- *)
\* bytes a file may hold: a, space, tab, newline, #, `, ', 0xE9
FileBytes == {97, B_SP, B_TAB, B_NL, B_HASH, B_BQUOTE, B_APOS, 233}
\* bytes at record-scanning level of a reload-state stream: the tags, # and
\* 0xE9, which is no tag; # is no comment start and no tag once a C record
\* has moved comment_start
TopBytes == {B_V, B_C, B_Q, B_D, B_T, B_F, B_HASH, 233}
\* the texts of a length field: empty, 1, -1 and the non-digit ':'.
\* A byte below '0' makes a length of 208 or more when the subtraction wraps:
\* the field " " is drawn only in C and Q records, whose lengths are compared
\* and never looped over.
FieldTexts(t) ==
    {<<>>, <<B_ONE>>, <<B_MINUS, B_ONE>>, <<58>>}
    \cup (IF t \in {B_C, B_Q} THEN {<<B_SP>>} ELSE {})
\* bytes of a delimiter: a, #, newline and the record tag T
DelimiterBytes == {97, B_HASH, B_NL, B_T}
\* bytes of a macro's name and of a diversion's content: a
BodyBytes == {97}
\* bytes of a macro's value: a, b
ValueBytes == {97, 98}
\* bytes after the V tag
VersionBytes == {B_ONE, 50}
\* bytes where a record terminator is read
TermBytes == {B_NL, 97}
\* bytes inside a comment of a reload-state stream
CommentBytes == {97, B_NL}

VARIABLES
    pc,              \* where control is
    status,          \* "running", "exit0", "exit1" or "panic"
    nargs,           \* command-line arguments consumed by parse_args
    flags,           \* parse_args: flags; main: the flags still to run
    any_files,       \* parse_args: any_files
    nesting_limit,   \* main: nesting_limit
    def_stack,       \* main: def_stack
    cur_diversion,   \* main: cur_diversion
    diversion_data,  \* main: diversion_data
    delimiters,      \* main: delimiters
    out,             \* bytes written to standard output
    eof,             \* the current input's iterator has returned None
    nread,           \* bytes read from the current input
    cur_tok,         \* process_text: cur_tok
    ret,             \* where skip_comment returns to
    tag,             \* exec_reload_state: tag byte of the record being decoded
    which,           \* which length field read_int is reading (1 or 2)
    result,          \* read_int: result
    negative,        \* read_int: negative
    int1,            \* first length field of the record
    int2,            \* second length field of the record
    name,            \* T/F record: name
    value,           \* T/F record: value; D record: content
    field,           \* read_int: the bytes of the field consumed so far
    cur_flag,        \* the flag main took last, or the argument parse_args
                     \* could not open: [kind, val]
    budget,          \* input bytes the run may still read
    inp,             \* the bytes read so far from the current file
    out0,            \* Len(out) when the current input was started
    last,            \* what the latest data.next() returned
    written,         \* the texts the latest step passed to print_to_diversion
    matches,         \* standard error: the bindings reported as "Matched"
    seen_version     \* a V record of the current stream has been accepted

vars == <<pc, status, nargs, flags, any_files, nesting_limit,
          def_stack, cur_diversion, diversion_data, delimiters, out, eof,
          nread, cur_tok, ret, tag, which, result, negative, int1, int2,
          name, value, field, cur_flag, budget, inp, out0, last, written, matches,
          seen_version>>

\* the variables owned by main's loop and by parse_args
ctl == <<nargs, flags, any_files, nesting_limit>>
\* the locals of exec_reload_state and read_int
rec == <<tag, which, result, negative, int1, int2, name, value, field>>
\* the interpreter state shared by every input
shared == <<def_stack, cur_diversion, diversion_data, delimiters>>

(* ------------------------------ helpers ------------------------------- *)
\* print! of one char: the UTF-8 encoding of a code point below 256
Utf8Char(c) ==
    IF c < 128 THEN <<c>> ELSE <<192 + (c \div 64), 128 + (c % 64)>>

RECURSIVE Utf8(_)
Utf8(s) == IF s = <<>> THEN <<>> ELSE Utf8Char(Head(s)) \o Utf8(Tail(s))

Delimiters_new ==
    [comment_start |-> B_HASH, comment_end |-> B_NL,
     quote_start |-> B_BQUOTE, quote_end |-> B_APOS]

\* print_to_diversion with `target = cur_diversion` and negative diversions
\* printed
print_to_diversion_shifted(cur, content, o, dd) ==
    IF cur <= 0 THEN [out |-> o \o Utf8(content), dd |-> dd]
    ELSE LET grown == [i \in 1..(IF Len(dd) <= cur THEN cur + 1 ELSE Len(dd)) |->
                         IF i <= Len(dd) THEN dd[i] ELSE <<>>]
         IN [out |-> o, dd |-> [grown EXCEPT ![cur + 1] = @ \o content]]

\* print_to_diversion without the loop that pushes empty strings: a write past
\* the end of diversion_data is dropped
print_to_diversion_nogrow(cur, content, o, dd) ==
    IF cur = 0 THEN [out |-> o \o Utf8(content), dd |-> dd]
    ELSE IF cur > 0 /\ cur <= Len(dd)
    THEN [out |-> o, dd |-> [dd EXCEPT ![cur] = @ \o content]]
    ELSE [out |-> o, dd |-> dd]

\* print_to_diversion: the new standard output and diversion_data
print_to_diversion(cur, content, o, dd) ==
    IF cur = 0 THEN [out |-> o \o Utf8(content), dd |-> dd]
    ELSE IF cur > 0 THEN
        LET target == cur - 1
            grown == [i \in 1..(IF Len(dd) <= target THEN target + 1 ELSE Len(dd)) |->
                        IF i <= Len(dd) THEN dd[i] ELSE <<>>]
        IN [out |-> o, dd |-> [grown EXCEPT ![target + 1] = @ \o content]]
    ELSE [out |-> o, dd |-> dd]

\* the reverse scan of process_macro: index of the matching binding, 0 if none
RECURSIVE find_rev(_, _, _)
find_rev(stack, i, tok) ==
    IF i = 0 THEN 0
    ELSE IF stack[i].name = tok THEN i
    ELSE find_rev(stack, i - 1, tok)

Lookup(stack, tok) == find_rev(stack, Len(stack), tok)

\* process_macro: a matched word writes nothing, an unmatched one is written
process_macro(tok, stack, cur, o, dd) ==
    IF Lookup(stack, tok) # 0 THEN [out |-> o, dd |-> dd]
    ELSE print_to_diversion(cur, tok, o, dd)

IsWhitespace(c) == c \in {B_SP, B_TAB, B_CR, B_NL}

\* the kind of input being run: "File" or "ReloadState"
input_kind == cur_flag.kind

\* the bytes data.next() can return now: None once the input is exhausted
ByteCost == IF input_kind = "File" THEN FileByteCost ELSE 1

Avail(S, limit) ==
    IF eof \/ nread >= limit \/ budget < ByteCost THEN {None} ELSE S \cup {None}

\* the iterator after returning c
Consumed(c) ==
    /\ eof' = (eof \/ c = None)
    /\ nread' = IF c = None THEN nread ELSE nread + 1
    /\ budget' = IF c = None THEN budget ELSE budget - ByteCost

\* the iterator is dropped when the input's function returns
Dropped ==
    /\ eof' = FALSE
    /\ nread' = 0
    /\ UNCHANGED budget

Exit(code) ==
    /\ status' = code
    /\ pc' = "exit"

(* ------------------------------- state -------------------------------- *)
Init ==
    /\ pc = "parse_args"
    /\ status = "running"
    /\ nargs = 0
    /\ flags = <<>>
    /\ any_files = FALSE
    /\ nesting_limit = DefaultNestingLimit
    /\ def_stack = <<[name |-> <<100, 105, 118, 101, 114, 116>>,
                      kind |-> "BuiltinFunction",
                      value |-> <<100, 105, 118, 101, 114, 116>>]>>
    /\ cur_diversion = 0
    /\ diversion_data = <<>>
    /\ delimiters = Delimiters_new
    /\ out = <<>>
    /\ eof = FALSE
    /\ nread = 0
    /\ cur_tok = <<>>
    /\ ret = "none"
    /\ tag = None
    /\ which = 1
    /\ result = 0
    /\ negative = FALSE
    /\ int1 = 0
    /\ int2 = 0
    /\ name = <<>>
    /\ value = <<>>
    /\ field = <<>>
    /\ cur_flag = [kind |-> "none", val |-> 0]
    /\ budget = MaxBytes
    /\ inp = <<>>
    /\ out0 = 0
    /\ last = None
    /\ written = <<>>
    /\ matches = <<>>
    /\ seen_version = FALSE

(* ----------------------------- parse_args ----------------------------- *)
\* parse_args pushes one flag per argument.  The model keeps of each flag
\* whether it is a File (which decides any_files); what an option is
\* (--reload-state=, --undefine=, ...) is drawn when main reaches it.
FlagClasses == {"File", "Option"}

Flag(k, v) == [kind |-> k, val |-> v]

\* one iteration of `for arg in args` that pushes a flag
parse_args_push ==
    /\ pc = "parse_args"
    /\ nargs < MaxArgs
    /\ \E f \in FlagClasses :
        /\ flags' = Append(flags, f)
        /\ any_files' = (any_files \/ f = "File")
    /\ nargs' = nargs + 1
    /\ UNCHANGED <<pc, status, nesting_limit, shared, out, budget, eof, nread,
                   cur_tok, ret, rec, cur_flag, inp, out0, last, written,
                   matches, seen_version>>

\* --help
parse_args_help ==
    /\ pc = "parse_args"
    /\ nargs < MaxArgs
    /\ Exit("exit0")
    /\ UNCHANGED <<ctl, shared, out, budget, eof, nread, cur_tok, ret, rec,
                   cur_flag, inp, out0, last, written, matches, seen_version>>

\* File::open fails on the argument, an input file or a reload-state file:
\* the process exits inside parse_args, with the flags pushed so far not run
parse_args_open_fatal ==
    /\ pc = "parse_args"
    /\ nargs < MaxArgs
    /\ Exit("exit1")
    /\ \E k \in {"File", "ReloadState"} : cur_flag' = Flag("OpenFailed", k)
    /\ UNCHANGED <<ctl, shared, out, budget, eof, nread, cur_tok, ret, rec,
                   inp, out0, last, written, matches, seen_version>>

\* another argument that ends the process: a nesting limit that is no number,
\* an unrecognized option
parse_args_fatal ==
    /\ pc = "parse_args"
    /\ nargs < MaxArgs
    /\ Exit("exit1")
    /\ UNCHANGED <<ctl, shared, out, budget, eof, nread, cur_tok, ret, rec,
                   cur_flag, inp, out0, last, written, matches, seen_version>>

\* the arguments are exhausted: standard input is the file if none was named
parse_args_return ==
    /\ pc = "parse_args"
    /\ flags' = IF any_files THEN flags ELSE Append(flags, "File")
    /\ nargs' = 0
    /\ any_files' = FALSE
    /\ pc' = "main"
    /\ UNCHANGED <<status, nesting_limit, shared, out, budget, eof, nread,
                   cur_tok, ret, rec, cur_flag, inp, out0, last, written,
                   matches, seen_version>>

(* -------------------------------- main -------------------------------- *)
NestingLimits == {1}
UndefNames == {<<97>>}

\* FatalWarning, GnulyCorrect, IncludePath, DebugFlags, Trace: nothing the
\* processing depends on
main_other ==
    /\ pc = "main" /\ flags # <<>>
    /\ Head(flags) = "Option"
    /\ flags' = Tail(flags)
    /\ cur_flag' = Flag("Other", 0)
    /\ written' = <<>>
    /\ UNCHANGED <<pc, status, nargs, any_files, nesting_limit, shared, out,
                   budget, eof, nread, cur_tok, ret, rec, inp, out0, last,
                   matches, seen_version>>

\* Flag::Undef: `=> {} // We don't care yet`
main_undef ==
    /\ pc = "main" /\ flags # <<>>
    /\ Head(flags) = "Option"
    /\ flags' = Tail(flags)
    /\ \E u \in UndefNames : cur_flag' = Flag("Undef", u)
    /\ written' = <<>>
    /\ UNCHANGED <<pc, status, nargs, any_files, nesting_limit, shared, out,
                   budget, eof, nread, cur_tok, ret, rec, inp, out0, last,
                   matches, seen_version>>

\* Flag::DebugFile: the file is created, or the process exits
main_debug_file ==
    /\ pc = "main" /\ flags # <<>>
    /\ Head(flags) = "Option"
    /\ flags' = Tail(flags)
    /\ \E ok \in BOOLEAN :
        /\ cur_flag' = Flag("DebugFile", ok)
        /\ IF ok THEN UNCHANGED <<pc, status>> ELSE Exit("exit1")
    /\ written' = <<>>
    /\ UNCHANGED <<nargs, any_files, nesting_limit, shared, out, budget, eof,
                   nread, cur_tok, ret, rec, inp, out0, last, matches,
                   seen_version>>

\* Flag::NestingLimit
main_nesting_limit ==
    /\ pc = "main" /\ flags # <<>>
    /\ Head(flags) = "Option"
    /\ flags' = Tail(flags)
    /\ \E n \in NestingLimits :
        /\ cur_flag' = Flag("NestingLimit", n)
        /\ nesting_limit' = n
    /\ written' = <<>>
    /\ UNCHANGED <<pc, status, nargs, any_files, shared, out, budget, eof,
                   nread, cur_tok, ret, rec, inp, out0, last, matches,
                   seen_version>>

\* main_file with every file starting from fresh delimiters
main_file_fresh ==
    /\ pc = "main" /\ flags # <<>>
    /\ Head(flags) = "File"
    /\ flags' = Tail(flags)
    /\ cur_flag' = Flag("File", 0)
    /\ pc' = "process_text"
    /\ cur_tok' = <<>>
    /\ eof' = FALSE /\ nread' = 0
    /\ inp' = <<>> /\ out0' = Len(out)
    /\ written' = <<>>
    /\ delimiters' = Delimiters_new
    /\ UNCHANGED <<status, nargs, any_files, nesting_limit, def_stack,
                   cur_diversion, diversion_data, out, budget, ret, rec, last,
                   matches, seen_version>>

\* Flag::File: exec_file reads the file and enters process_text
main_file ==
    /\ pc = "main" /\ flags # <<>>
    /\ Head(flags) = "File"
    /\ flags' = Tail(flags)
    /\ cur_flag' = Flag("File", 0)
    /\ pc' = "process_text"
    /\ cur_tok' = <<>>
    /\ eof' = FALSE /\ nread' = 0
    /\ inp' = <<>> /\ out0' = Len(out)
    /\ written' = <<>>
    /\ UNCHANGED <<status, nargs, any_files, nesting_limit, shared, out,
                   budget, ret, rec, last, matches, seen_version>>

\* Flag::ReloadState: exec_reload_state reads the file and enters its loop
main_reload_state ==
    /\ pc = "main" /\ flags # <<>>
    /\ Head(flags) = "Option"
    /\ flags' = Tail(flags)
    /\ cur_flag' = Flag("ReloadState", 0)
    /\ pc' = "reload_top"
    /\ eof' = FALSE /\ nread' = 0
    /\ inp' = <<>> /\ out0' = Len(out)
    /\ seen_version' = FALSE
    /\ written' = <<>>
    /\ UNCHANGED <<status, nargs, any_files, nesting_limit, shared, out,
                   budget, cur_tok, ret, rec, last, matches>>

\* the flags are exhausted: main returns
main_return ==
    /\ pc = "main" /\ flags = <<>>
    /\ Exit("exit0")
    /\ written' = <<>>
    /\ UNCHANGED <<ctl, shared, out, budget, eof, nread, cur_tok, ret, rec,
                   cur_flag, inp, out0, last, matches, seen_version>>

(* ---------------------------- process_text ---------------------------- *)
\* what process_macro(tok) passes to print_to_diversion
MacroWrites(tok) == IF Lookup(def_stack, tok) # 0 THEN <<>> ELSE <<tok>>

\* what process_macro(tok) reports on standard error
MacroMatches(tok) ==
    IF Lookup(def_stack, tok) # 0
    THEN Append(matches, Lookup(def_stack, tok)) ELSE matches

\* data.next() returned None: the last word is resolved, exec_file returns
process_text_end ==
    /\ pc = "process_text"
    /\ \E c \in Avail(FileBytes, MaxFileLen) :
        /\ c = None
        /\ Dropped
        /\ last' = c
    /\ LET r == process_macro(cur_tok, def_stack, cur_diversion, out,
                              diversion_data)
       IN /\ out' = r.out
          /\ diversion_data' = r.dd
    /\ written' = MacroWrites(cur_tok)
    /\ matches' = MacroMatches(cur_tok)
    /\ pc' = "main"
    /\ cur_tok' = <<>>
    /\ UNCHANGED <<status, ctl, def_stack, cur_diversion, delimiters, ret, rec,
                   cur_flag, inp, out0, seen_version>>

\* the byte is comment_start: the word so far is resolved, the comment skipped
process_text_comment ==
    /\ pc = "process_text"
    /\ \E c \in Avail(FileBytes, MaxFileLen) :
        /\ c # None
        /\ c = delimiters.comment_start
        /\ Consumed(c)
        /\ last' = c
        /\ inp' = Append(inp, c)
    /\ LET r == process_macro(cur_tok, def_stack, cur_diversion, out,
                              diversion_data)
       IN /\ out' = r.out
          /\ diversion_data' = r.dd
    /\ written' = MacroWrites(cur_tok)
    /\ matches' = MacroMatches(cur_tok)
    /\ pc' = "skip_comment"
    /\ ret' = "process_text"
    /\ UNCHANGED <<status, ctl, def_stack, cur_diversion, delimiters, cur_tok,
                   rec, cur_flag, out0, seen_version>>

\* the byte is whitespace: the word is resolved, the byte written, the word reset
process_text_whitespace ==
    /\ pc = "process_text"
    /\ \E c \in Avail(FileBytes, MaxFileLen) :
        /\ c # None
        /\ c # delimiters.comment_start
        /\ IsWhitespace(c)
        /\ Consumed(c)
        /\ last' = c
        /\ inp' = Append(inp, c)
        /\ LET r1 == process_macro(cur_tok, def_stack, cur_diversion, out,
                                   diversion_data)
               r2 == print_to_diversion(cur_diversion, <<c>>, r1.out, r1.dd)
           IN /\ out' = r2.out
              /\ diversion_data' = r2.dd
        /\ written' = Append(MacroWrites(cur_tok), <<c>>)
    /\ matches' = MacroMatches(cur_tok)
    /\ cur_tok' = <<>>
    /\ UNCHANGED <<pc, status, ctl, def_stack, cur_diversion, delimiters, ret,
                   rec, cur_flag, out0, seen_version>>

\* any other byte is pushed to the word
process_text_push ==
    /\ pc = "process_text"
    /\ \E c \in Avail(FileBytes, MaxFileLen) :
        /\ c # None
        /\ c # delimiters.comment_start
        /\ ~IsWhitespace(c)
        /\ Consumed(c)
        /\ last' = c
        /\ inp' = Append(inp, c)
        /\ cur_tok' = Append(cur_tok, c)
    /\ written' = <<>>
    /\ UNCHANGED <<pc, status, ctl, shared, out, ret, rec, cur_flag, out0,
                   matches, seen_version>>

(* ---------------------------- skip_comment ---------------------------- *)
\* the bytes a comment may hold, by the input it is in
CommentDraw ==
    IF input_kind = "File" THEN Avail(FileBytes, MaxFileLen)
    ELSE Avail(CommentBytes, MaxBytes)

\* one iteration of skip_comment: it returns at comment_end and at None
skip_comment ==
    /\ pc = "skip_comment"
    /\ \E c \in CommentDraw :
        /\ Consumed(c)
        /\ last' = c
        /\ inp' = IF input_kind = "File" /\ c # None THEN Append(inp, c) ELSE inp
        /\ pc' = IF c = None \/ c = delimiters.comment_end
                 THEN ret ELSE "skip_comment"
    /\ written' = <<>>
    /\ UNCHANGED <<status, ctl, shared, out, cur_tok, ret, rec, cur_flag,
                   out0, matches, seen_version>>

(* -------------------------- exec_reload_state ------------------------- *)
Tags == {B_C, B_D, B_F, B_Q, B_T}

\* data.next() returned None: exec_reload_state returns
reload_end ==
    /\ pc = "reload_top"
    /\ \E c \in Avail(TopBytes, MaxBytes) :
        /\ c = None
        /\ Dropped
        /\ last' = c
    /\ pc' = "main"
    /\ seen_version' = FALSE
    /\ written' = <<>>
    /\ UNCHANGED <<status, ctl, shared, out, cur_tok, ret, rec, cur_flag,
                   inp, out0, matches>>

\* the byte is comment_start: the comment is skipped
reload_comment ==
    /\ pc = "reload_top"
    /\ \E c \in Avail(TopBytes, MaxBytes) :
        /\ c # None
        /\ c = delimiters.comment_start
        /\ Consumed(c)
        /\ last' = c
    /\ pc' = "skip_comment"
    /\ ret' = "reload_top"
    /\ written' = <<>>
    /\ UNCHANGED <<status, ctl, shared, out, cur_tok, rec, cur_flag, inp,
                   out0, matches, seen_version>>

\* reload_tag with the tag test ahead of the comment_start test
reload_tag_first ==
    /\ pc = "reload_top"
    /\ \E c \in Avail(TopBytes, MaxBytes) :
        /\ c # None
        /\ c \in Tags
        /\ Consumed(c)
        /\ last' = c
        /\ tag' = c
    /\ pc' = "read_int"
    /\ which' = 1
    /\ result' = 0
    /\ negative' = FALSE
    /\ int1' = 0 /\ int2' = 0
    /\ name' = <<>> /\ value' = <<>> /\ field' = <<>>
    /\ written' = <<>>
    /\ UNCHANGED <<status, ctl, shared, out, cur_tok, ret, cur_flag, inp,
                   out0, matches, seen_version>>

\* the byte is C, D, F, Q or T: the record's two length fields are read
reload_tag ==
    /\ pc = "reload_top"
    /\ \E c \in Avail(TopBytes, MaxBytes) :
        /\ c # None
        /\ c # delimiters.comment_start
        /\ c \in Tags
        /\ Consumed(c)
        /\ last' = c
        /\ tag' = c
    /\ pc' = "read_int"
    /\ which' = 1
    /\ result' = 0
    /\ negative' = FALSE
    /\ int1' = 0 /\ int2' = 0
    /\ name' = <<>> /\ value' = <<>> /\ field' = <<>>
    /\ written' = <<>>
    /\ UNCHANGED <<status, ctl, shared, out, cur_tok, ret, cur_flag, inp,
                   out0, matches, seen_version>>

\* the byte is V: the version byte is read next
reload_version_tag ==
    /\ pc = "reload_top"
    /\ \E c \in Avail(TopBytes, MaxBytes) :
        /\ c # None
        /\ c # delimiters.comment_start
        /\ c = B_V
        /\ Consumed(c)
        /\ last' = c
        /\ tag' = c
    /\ pc' = "version"
    /\ written' = <<>>
    /\ UNCHANGED <<status, ctl, shared, out, cur_tok, ret, which, result,
                   negative, int1, int2, name, value, field, cur_flag, inp,
                   out0, matches, seen_version>>

\* any other byte is printed to standard output
reload_raw ==
    /\ pc = "reload_top"
    /\ \E c \in Avail(TopBytes, MaxBytes) :
        /\ c # None
        /\ c # delimiters.comment_start
        /\ c \notin Tags \cup {B_V}
        /\ Consumed(c)
        /\ last' = c
        /\ out' = out \o Utf8Char(c)
    /\ written' = <<>>
    /\ UNCHANGED <<pc, status, ctl, shared, cur_tok, ret, rec, cur_flag,
                   inp, out0, matches, seen_version>>

(* ------------------------------ read_int ------------------------------ *)
\* the separator of the field being read
Sep == IF which = 1 THEN B_COMMA ELSE B_NL

\* s is a proper prefix of t
IsPrefix(s, t) == Len(s) < Len(t) /\ SubSeq(t, 1, Len(s)) = s

\* the bytes that continue the field towards one of FieldTexts, its separator
\* once it is one of them, or None
IntDraw ==
    Avail({t[Len(field) + 1] : t \in {u \in FieldTexts(tag) : IsPrefix(field, u)}}
          \cup (IF field \in FieldTexts(tag) THEN {Sep} ELSE {}),
          MaxBytes)

\* what read_int returns
read_int_value == result * (IF negative THEN -1 ELSE 1)

\* where exec_reload_state goes after the second length field
AfterLengths ==
    IF tag \in {B_C, B_Q} THEN "delimiter_length"
    ELSE IF tag = B_D THEN "content"
    ELSE "name"

\* the loop of read_int ends, at the separator or at None
read_int_return ==
    /\ pc = "read_int"
    /\ \E c \in IntDraw :
        /\ c = None \/ c = Sep
        /\ Consumed(c)
        /\ last' = c
    /\ IF which = 1
       THEN /\ int1' = read_int_value
            /\ which' = 2
            /\ UNCHANGED <<pc, int2>>
       ELSE /\ int2' = read_int_value
            /\ pc' = AfterLengths
            /\ UNCHANGED <<which, int1>>
    /\ result' = 0
    /\ negative' = FALSE
    /\ field' = <<>>
    /\ written' = <<>>
    /\ UNCHANGED <<status, ctl, shared, out, cur_tok, ret, tag, name, value,
                   cur_flag, inp, out0, matches, seen_version>>

\* the byte is '-'
read_int_minus ==
    /\ pc = "read_int"
    /\ \E c \in IntDraw :
        /\ c # None /\ c # Sep
        /\ c = B_MINUS
        /\ Consumed(c)
        /\ last' = c
        /\ field' = Append(field, c)
    /\ negative' = TRUE
    /\ written' = <<>>
    /\ UNCHANGED <<pc, status, ctl, shared, out, cur_tok, ret, tag, which,
                   result, int1, int2, name, value, cur_flag, inp, out0,
                   matches, seen_version>>

\* any other byte c is taken as the digit c - b'0'; below b'0' the u8
\* subtraction overflows: a panic in a build with overflow checks, a wrap
\* modulo 256 in a build without
read_int_digit ==
    /\ pc = "read_int"
    /\ \E c \in IntDraw :
        /\ c # None /\ c # Sep
        /\ c # B_MINUS
        /\ Consumed(c)
        /\ last' = c
        /\ field' = Append(field, c)
        /\ \/ /\ c < B_ZERO
              /\ Exit("panic")
              /\ UNCHANGED result
           \/ /\ result' = result * 10 + ((c - B_ZERO) % 256)
              /\ UNCHANGED <<pc, status>>
    /\ written' = <<>>
    /\ UNCHANGED <<ctl, shared, out, cur_tok, ret, tag, which, negative, int1,
                   int2, name, value, cur_flag, inp, out0, matches,
                   seen_version>>

(* ------------------------- C and Q records ---------------------------- *)
\* the length test without its `end_len != 1` half
BadDelimiterLength_start_only(start_len, end_len) == start_len # 1

\* the test `start_len != 1 || end_len != 1`
BadDelimiterLength(start_len, end_len) == start_len # 1 \/ end_len # 1

\* the length test of a C or Q record: a length other than 1 is fatal
reload_delimiter_length ==
    /\ pc = "delimiter_length"
    /\ IF BadDelimiterLength(int1, int2)
       THEN Exit("exit1")
       ELSE /\ pc' = "delimiter_start"
            /\ UNCHANGED status
    /\ written' = <<>>
    /\ UNCHANGED <<ctl, shared, out, budget, eof, nread, cur_tok, ret, rec,
                   cur_flag, inp, out0, last, matches, seen_version>>

\* comment_start / quote_start = data.next().unwrap_or(b'#')
reload_delimiter_start ==
    /\ pc = "delimiter_start"
    /\ \E c \in Avail(DelimiterBytes, MaxBytes) :
        /\ Consumed(c)
        /\ last' = c
        /\ LET b == IF c = None THEN B_HASH ELSE c
           IN delimiters' = IF tag = B_C
                            THEN [delimiters EXCEPT !.comment_start = b]
                            ELSE [delimiters EXCEPT !.quote_start = b]
    /\ pc' = "delimiter_end"
    /\ written' = <<>>
    /\ UNCHANGED <<status, ctl, def_stack, cur_diversion, diversion_data, out,
                   cur_tok, ret, rec, cur_flag, inp, out0, matches,
                   seen_version>>

\* reload_delimiter_end with the C branch assigning quote_end as well
reload_delimiter_end_both ==
    /\ pc = "delimiter_end"
    /\ \E c \in Avail(DelimiterBytes, MaxBytes) :
        /\ Consumed(c)
        /\ last' = c
        /\ LET b == IF c = None THEN B_NL ELSE c
           IN delimiters' = IF tag = B_C
                            THEN [delimiters EXCEPT !.comment_end = b,
                                                    !.quote_end = b]
                            ELSE [delimiters EXCEPT !.quote_end = b]
    /\ pc' = "newline"
    /\ written' = <<>>
    /\ UNCHANGED <<status, ctl, def_stack, cur_diversion, diversion_data, out,
                   cur_tok, ret, rec, cur_flag, inp, out0, matches,
                   seen_version>>

\* comment_end / quote_end = data.next().unwrap_or(b'\n')
reload_delimiter_end ==
    /\ pc = "delimiter_end"
    /\ \E c \in Avail(DelimiterBytes, MaxBytes) :
        /\ Consumed(c)
        /\ last' = c
        /\ LET b == IF c = None THEN B_NL ELSE c
           IN delimiters' = IF tag = B_C
                            THEN [delimiters EXCEPT !.comment_end = b]
                            ELSE [delimiters EXCEPT !.quote_end = b]
    /\ pc' = "newline"
    /\ written' = <<>>
    /\ UNCHANGED <<status, ctl, def_stack, cur_diversion, diversion_data, out,
                   cur_tok, ret, rec, cur_flag, inp, out0, matches,
                   seen_version>>

(* ----------------------------- D records ------------------------------ *)
\* `for _ in 0..content_len`: one more byte of content
reload_content_push ==
    /\ pc = "content"
    /\ Len(value) < int2
    /\ \E c \in Avail(BodyBytes, MaxBytes) :
        /\ Consumed(c)
        /\ last' = c
        /\ value' = Append(value, IF c = None THEN B_HASH ELSE c)
    /\ written' = <<>>
    /\ UNCHANGED <<pc, status, ctl, shared, out, cur_tok, ret, tag, which,
                   result, negative, int1, int2, name, field, cur_flag, inp,
                   out0, matches, seen_version>>

\* reload_content_write with the content written before the diversion is
\* selected
reload_content_write_before ==
    /\ pc = "content"
    /\ Len(value) >= int2
    /\ cur_diversion' = int1
    /\ LET r == print_to_diversion(cur_diversion, value, out, diversion_data)
       IN /\ out' = r.out
          /\ diversion_data' = r.dd
    /\ written' = <<value>>
    /\ pc' = "newline"
    /\ UNCHANGED <<status, ctl, def_stack, delimiters, budget, eof, nread, cur_tok,
                   ret, rec, cur_flag, inp, out0, last, matches,
                   seen_version>>

\* the content is complete: the diversion is selected and the content written
reload_content_write ==
    /\ pc = "content"
    /\ Len(value) >= int2
    /\ cur_diversion' = int1
    /\ LET r == print_to_diversion(int1, value, out, diversion_data)
       IN /\ out' = r.out
          /\ diversion_data' = r.dd
    /\ written' = <<value>>
    /\ pc' = "newline"
    /\ UNCHANGED <<status, ctl, def_stack, delimiters, budget, eof, nread, cur_tok,
                   ret, rec, cur_flag, inp, out0, last, matches,
                   seen_version>>

(* --------------------------- T and F records -------------------------- *)
\* `for _ in 0..name_len`: one more byte of the name
reload_name_push ==
    /\ pc = "name"
    /\ Len(name) < int1
    /\ \E c \in Avail(BodyBytes, MaxBytes) :
        /\ Consumed(c)
        /\ last' = c
        /\ name' = Append(name, IF c = None THEN B_HASH ELSE c)
    /\ written' = <<>>
    /\ UNCHANGED <<pc, status, ctl, shared, out, cur_tok, ret, tag, which,
                   result, negative, int1, int2, value, field, cur_flag,
                   inp, out0, matches, seen_version>>

\* the name is complete
reload_name_done ==
    /\ pc = "name"
    /\ Len(name) >= int1
    /\ pc' = "value"
    /\ written' = <<>>
    /\ UNCHANGED <<status, ctl, shared, out, budget, eof, nread, cur_tok, ret, rec,
                   cur_flag, inp, out0, last, matches, seen_version>>

\* `for _ in 0..value_len`: one more byte of the value
reload_value_push ==
    /\ pc = "value"
    /\ Len(value) < int2
    /\ \E c \in Avail(ValueBytes, MaxBytes) :
        /\ Consumed(c)
        /\ last' = c
        /\ value' = Append(value, IF c = None THEN B_HASH ELSE c)
    /\ written' = <<>>
    /\ UNCHANGED <<pc, status, ctl, shared, out, cur_tok, ret, tag, which,
                   result, negative, int1, int2, name, field, cur_flag, inp,
                   out0, matches, seen_version>>

\* the value is complete: the binding is pushed on def_stack
reload_def_push ==
    /\ pc = "value"
    /\ Len(value) >= int2
    /\ def_stack' = Append(def_stack,
                           [name |-> name,
                            kind |-> IF tag = B_T THEN "Text"
                                     ELSE "BuiltinFunction",
                            value |-> value])
    /\ pc' = "newline"
    /\ written' = <<>>
    /\ UNCHANGED <<status, ctl, cur_diversion, diversion_data, delimiters, out,
                   budget, eof, nread, cur_tok, ret, rec, cur_flag, inp, out0, last,
                   matches, seen_version>>

(* ------------------------------ V records ----------------------------- *)
\* the byte after V must be '1'
reload_version ==
    /\ pc = "version"
    /\ \E c \in Avail(VersionBytes, MaxBytes) :
        /\ Consumed(c)
        /\ last' = c
        /\ IF c = None \/ c # B_ONE
           THEN Exit("exit1")
           ELSE /\ pc' = "newline"
                /\ UNCHANGED status
    /\ written' = <<>>
    /\ UNCHANGED <<ctl, shared, out, cur_tok, ret, rec, cur_flag, inp, out0,
                   matches, seen_version>>

(* -------------------------- record terminator ------------------------- *)
\* the terminator test without its `matches!(c, None)` half
MissingNewline_some_only(c) == c # None /\ c # B_NL

\* the test `matches!(c, None) || !matches!(c, Some(b'\n'))`
MissingNewline(c) == c = None \/ c # B_NL

\* the record's locals go out of scope at the end of the loop iteration
RecordDone ==
    /\ tag' = None
    /\ which' = 1
    /\ result' = 0
    /\ negative' = FALSE
    /\ int1' = 0 /\ int2' = 0
    /\ name' = <<>> /\ value' = <<>> /\ field' = <<>>

\* the byte after a record must be a newline
reload_newline ==
    /\ pc = "newline"
    /\ \E c \in Avail(TermBytes, MaxBytes) :
        /\ Consumed(c)
        /\ last' = c
        /\ IF MissingNewline(c)
           THEN /\ Exit("exit1")
                /\ UNCHANGED seen_version
                /\ UNCHANGED rec
           ELSE /\ pc' = "reload_top"
                /\ seen_version' = (seen_version \/ tag = B_V)
                /\ RecordDone
                /\ UNCHANGED status
    /\ written' = <<>>
    /\ UNCHANGED <<ctl, shared, out, cur_tok, ret, cur_flag, inp, out0,
                   matches>>

(* --------------------------- specification ---------------------------- *)
Next ==
    \/ parse_args_push
    \/ parse_args_help
    \/ parse_args_fatal
    \/ parse_args_open_fatal
    \/ parse_args_return
    \/ main_other
    \/ main_undef
    \/ main_debug_file
    \/ main_nesting_limit
    \/ main_file
    \/ main_reload_state
    \/ main_return
    \/ process_text_end
    \/ process_text_comment
    \/ process_text_whitespace
    \/ process_text_push
    \/ skip_comment
    \/ reload_end
    \/ reload_comment
    \/ reload_tag
    \/ reload_version_tag
    \/ reload_raw
    \/ read_int_return
    \/ read_int_minus
    \/ read_int_digit
    \/ reload_delimiter_length
    \/ reload_delimiter_start
    \/ reload_delimiter_end
    \/ reload_content_push
    \/ reload_content_write
    \/ reload_name_push
    \/ reload_name_done
    \/ reload_value_push
    \/ reload_def_push
    \/ reload_version
    \/ reload_newline

Spec == Init /\ [][Next]_vars

TypeOK ==
    /\ status \in {"running", "exit0", "exit1", "panic"}
    /\ (status # "running") = (pc = "exit")

(* ------------------------------- claims ------------------------------- *)
RECURSIVE Concat(_)
Concat(ss) == IF ss = <<>> THEN <<>> ELSE Head(ss) \o Concat(Tail(ss))

\* the part of standard output written since the current input was started
Produced == SubSeq(out, out0 + 1, Len(out))

\* buffer k of a diversion store, empty when it is absent
Buffer(dd, k) == IF k <= Len(dd) THEN dd[k] ELSE <<>>

\* C1: a step that writes text w through print_to_diversion with current
\* diversion 0 appends w to standard output and leaves every buffer as it
\* was; with current diversion k > 0 it appends w to buffer k only, leaves
\* standard output and the content of every other buffer as they were; with
\* a negative current diversion it changes neither.
C1_WriteRouting ==
    [][written' # <<>> =>
        LET w == Concat(written')
            k == cur_diversion'
        IN /\ k = 0 => /\ out' = out \o Utf8(w)
                       /\ diversion_data' = diversion_data
           /\ k > 0 => /\ out' = out
                       /\ Len(diversion_data') >= k
                       /\ Len(diversion_data') >= Len(diversion_data)
                       /\ diversion_data'[k] = Buffer(diversion_data, k) \o w
                       /\ \A i \in 1..Len(diversion_data') :
                            i # k => diversion_data'[i] = Buffer(diversion_data, i)
           /\ k < 0 => /\ out' = out
                       /\ diversion_data' = diversion_data]_vars

\* a file's word and the whitespace after it have gone to buffer 1
C1_Witness ==
    /\ input_kind = "File"
    /\ cur_diversion = 1
    /\ Len(written) = 2
    /\ written[1] # <<>>
    /\ Len(diversion_data) >= 1
    /\ Len(diversion_data[1]) >= 2
    /\ out = <<>>

\* a D record has selected a negative diversion and its content is discarded
C1_WitnessDiscard ==
    /\ cur_diversion < 0
    /\ written # <<>>
    /\ written[1] # <<>>
    /\ out = <<>>
    /\ diversion_data = <<>>

\* a file has just been scanned to its end
FileDone == pc = "main" /\ input_kind = "File"

\* no byte of s is in B
NoByte(s, B) == \A i \in 1..Len(s) : s[i] \notin B

\* the words of s: its maximal runs of bytes that are not whitespace
RECURSIVE WordsOf(_, _)
WordsOf(s, w) ==
    IF s = <<>> THEN (IF w = <<>> THEN {} ELSE {w})
    ELSE IF Head(s) \in {B_SP, B_TAB, B_CR, B_NL}
    THEN (IF w = <<>> THEN {} ELSE {w}) \cup WordsOf(Tail(s), <<>>)
    ELSE WordsOf(Tail(s), Append(w, Head(s)))

\* the index of the last binding of def_stack named n, 0 if there is none
LastBinding(n) ==
    LET I == {i \in 1..Len(def_stack) : def_stack[i].name = n}
    IN IF I = {} THEN 0 ELSE CHOOSE i \in I : \A j \in I : j <= i

\* an input of the pass-through claim: no comment-start byte, no quote
\* delimiter, no word that is a bound name
Unmatched(s) ==
    /\ NoByte(s, {delimiters.comment_start, delimiters.quote_start,
                  delimiters.quote_end})
    /\ \A w \in WordsOf(s, <<>>) : LastBinding(w) = 0

\* C2: a file scanned with current diversion 0 that holds no comment-start
\* byte, no quote delimiter and no word equal to a bound name is copied to
\* standard output byte for byte.
C2_PassThrough ==
    (FileDone /\ cur_diversion = 0 /\ Unmatched(inp)) => Produced = inp

\* the same for files of bytes below 128
C2_PassThroughAscii ==
    (FileDone /\ cur_diversion = 0 /\ Unmatched(inp)
        /\ \A i \in 1..Len(inp) : inp[i] < 128) => Produced = inp

\* a replacement text that re-scanning writes as it is: one word below 128
\* that holds no delimiter and no '$' and is no bound name
PlainText(v) ==
    /\ v # <<>>
    /\ NoByte(v, {delimiters.comment_start, delimiters.quote_start,
                  delimiters.quote_end, B_SP, B_TAB, B_CR, B_NL, 36})
    /\ \A i \in 1..Len(v) : v[i] < 128
    /\ LastBinding(v) = 0

\* C3: a file that is one word, the name of a Text binding whose value is a
\* plain text, scanned with current diversion 0, writes the value.
C3_TextSubstitution ==
    \A i \in 1..Len(def_stack) :
        (/\ FileDone /\ cur_diversion = 0
         /\ inp # <<>> /\ LastBinding(inp) = i
         /\ def_stack[i].kind = "Text"
         /\ PlainText(def_stack[i].value))
        => Produced = def_stack[i].value

\* s without its first and last byte
Inner(s) == SubSeq(s, 2, Len(s) - 1)

\* C4: a file quote_start s quote_end, s free of quote delimiters, scanned
\* with current diversion 0, writes s.
C4_QuoteTransparency ==
    (/\ FileDone /\ cur_diversion = 0
     /\ Len(inp) >= 2
     /\ inp[1] = delimiters.quote_start
     /\ inp[Len(inp)] = delimiters.quote_end
     /\ delimiters.quote_start # delimiters.comment_start
     /\ NoByte(Inner(inp), {delimiters.quote_start, delimiters.quote_end}))
    => Produced = Inner(inp)

\* C5: a file comment_start s comment_end, s free of comment_end, scanned
\* with current diversion 0, is written as it is.
C5_CommentTransparency ==
    (/\ FileDone /\ cur_diversion = 0
     /\ Len(inp) >= 2
     /\ inp[1] = delimiters.comment_start
     /\ inp[Len(inp)] = delimiters.comment_end
     /\ NoByte(Inner(inp), {delimiters.comment_end}))
    => Produced = inp

\* the names bound in def_stack
BoundNames == {def_stack[i].name : i \in 1..Len(def_stack)}

\* C6: lookup finds the last binding of a name in insertion order, and after
\* an undefine of a name no binding of that name is left.
C6_Shadowing ==
    /\ \A n \in BoundNames : Lookup(def_stack, n) = LastBinding(n)
    /\ cur_flag.kind = "Undef" => LastBinding(cur_flag.val) = 0

\* a Text binding that invokes itself has been matched
SelfInvoked ==
    \E k \in 1..Len(matches) :
        LET b == def_stack[matches[k]]
        IN b.kind = "Text" /\ b.name # <<>> /\ b.value = b.name

\* C7: a run in which a text macro bound to invoke itself was invoked does not
\* end successfully.
C7_NestingGuard == SelfInvoked => status # "exit0"

\* C8: in a reload-state stream no record changes the delimiters, the macro
\* table or the diversion store before a V record of the stream was
\* accepted, and decoding does not end successfully without one.
C8_VersionGate ==
    [][/\ (input_kind = "ReloadState" /\ shared' # shared) => seen_version
       /\ (pc = "reload_top" /\ pc' = "main") => seen_version]_vars

\* C9: the decoder leaves a record only through the terminator test; when the
\* byte read there is missing or is no newline the process exits with status
\* 1, and an exited process takes no further step.
C9_RecordTerminator ==
    [][/\ (pc = "newline" /\ last' # B_NL) => (status' = "exit1" /\ pc' = "exit")
       /\ (pc = "newline" /\ last' = B_NL) => (status' = "running" /\ pc' = "reload_top")
       /\ (pc' = "reload_top" /\ pc \in {"read_int", "delimiter_length",
               "delimiter_start", "delimiter_end", "content", "name", "value",
               "version", "newline"}) => (pc = "newline" /\ last' = B_NL)
       /\ status # "running" => UNCHANGED vars]_vars

\* a T record whose declared lengths ran past the end of input was stopped at
\* its missing terminator
C9_Witness ==
    /\ status = "exit1"
    /\ tag = B_T
    /\ eof
    /\ last = None
    /\ int2 > 0
    /\ Len(value) = int2
    /\ value[Len(value)] = B_HASH

\* C10: a C or Q record whose slen or elen is not 1 ends the process at the
\* length test, and no step assigns a delimiter unless it is in a C or Q
\* record whose two lengths are 1.
C10_SingleByteDelimiters ==
    [][/\ (pc = "delimiter_length" /\ (int1 # 1 \/ int2 # 1))
            => (status' = "exit1" /\ delimiters' = delimiters)
       /\ delimiters' # delimiters
            => (tag \in {B_C, B_Q} /\ int1 = 1 /\ int2 = 1)]_vars

\* a C record with slen 1 and elen 10 was rejected, and the four delimiters
\* are the defaults they were before it
C10_Witness ==
    /\ status = "exit1"
    /\ tag = B_C
    /\ int1 = 1
    /\ int2 = 10
    /\ delimiters.comment_start = B_HASH
    /\ delimiters.comment_end = B_NL
    /\ delimiters.quote_start = B_BQUOTE
    /\ delimiters.quote_end = B_APOS

\* a length field the decoder must refuse: a byte that is no decimal digit
\* and no leading '-'
Malformed(f) ==
    \E i \in 1..Len(f) :
        /\ f[i] \notin B_ZERO..(B_ZERO + 9)
        /\ ~(i = 1 /\ f[i] = B_MINUS)

\* C11: when read_int leaves a length field that holds a byte other than a
\* decimal digit or a leading '-', or that ended at end of input before its
\* separator, the load is aborted: the process does not go on running.
C11_MalformedLengthFatal ==
    [][(/\ pc = "read_int"
        /\ last' \in {None, Sep}
        /\ (Malformed(field) \/ last' = None))
       => status' # "running"]_vars

\* the same for the non-digit field alone: a D record whose diversion number
\* is ":" has selected diversion 10 and decoding has gone on to the next record
C11_NonDigitValue ==
    ~(/\ pc = "reload_top" /\ input_kind = "ReloadState"
      /\ cur_diversion = 10 /\ status = "running")

\* control is inside a C or Q record, after its tag
InDelimiterRecord ==
    /\ pc \in {"read_int", "delimiter_length", "delimiter_start",
               "delimiter_end", "newline"}
    /\ tag \in {B_C, B_Q}

\* C12: every step of a C (resp. Q) record leaves the macro table, the
\* current diversion, the diversion buffers, standard output and the quote
\* (resp. comment) delimiters as they were; the first content byte becomes
\* comment_start (resp. quote_start) and the second comment_end (resp.
\* quote_end), no other step of the record assigns a delimiter, and the
\* newline after them ends the record with decoding going on.
C12_DelimiterRecordEffect ==
    [][/\ (pc = "reload_top" /\ pc' = "read_int")
            => (shared' = shared /\ out' = out)
       /\ InDelimiterRecord =>
            /\ def_stack' = def_stack
            /\ cur_diversion' = cur_diversion
            /\ diversion_data' = diversion_data
            /\ out' = out
            /\ tag = B_C => /\ delimiters'.quote_start = delimiters.quote_start
                            /\ delimiters'.quote_end = delimiters.quote_end
            /\ tag = B_Q => /\ delimiters'.comment_start = delimiters.comment_start
                            /\ delimiters'.comment_end = delimiters.comment_end
            /\ (pc = "delimiter_start" /\ last' # None) =>
                 delimiters' = IF tag = B_C
                               THEN [delimiters EXCEPT !.comment_start = last']
                               ELSE [delimiters EXCEPT !.quote_start = last']
            /\ (pc = "delimiter_end" /\ last' # None) =>
                 delimiters' = IF tag = B_C
                               THEN [delimiters EXCEPT !.comment_end = last']
                               ELSE [delimiters EXCEPT !.quote_end = last']
            /\ pc \notin {"delimiter_start", "delimiter_end"} =>
                 delimiters' = delimiters
            /\ (pc = "newline" /\ last' = B_NL) =>
                 (pc' = "reload_top" /\ status' = "running")]_vars

\* the stream "V1\nC1,1\n#\n" has been decoded up to the terminator of its C
\* record: ten bytes read, the V record accepted, the delimiters the defaults
\* and nothing written
C12_Witness ==
    /\ pc = "newline" /\ status = "running"
    /\ tag = B_C /\ int1 = 1 /\ int2 = 1
    /\ seen_version
    /\ nread = 10 /\ ~eof
    /\ last = B_NL
    /\ delimiters = Delimiters_new
    /\ out = <<>> /\ diversion_data = <<>> /\ cur_diversion = 0
    /\ Len(def_stack) = 1

\* a Q record has set the quote delimiters to T and a, the comment delimiters
\* being the defaults
C12_WitnessQuote ==
    /\ pc = "newline" /\ tag = B_Q
    /\ delimiters.quote_start = B_T /\ delimiters.quote_end = 97
    /\ delimiters.comment_start = B_HASH /\ delimiters.comment_end = B_NL

\* C13: the step that completes the content of a D record sets the current
\* diversion to the record's diversion number and writes the content there:
\* appended to standard output for diversion 0, appended to buffer div and
\* nothing to standard output for div > 0, dropped for div < 0; the content
\* is the bytes read after the lengths; and no other step of the program
\* changes the current diversion.
C13_DiversionRecord ==
    [][/\ (pc = "content" /\ pc' = "newline") =>
            /\ tag = B_D
            /\ cur_diversion' = int1
            /\ written' = <<value>>
            /\ int1 = 0 => /\ out' = out \o Utf8(value)
                           /\ diversion_data' = diversion_data
            /\ int1 > 0 => /\ out' = out
                           /\ Len(diversion_data') >= int1
                           /\ diversion_data'[int1] =
                                Buffer(diversion_data, int1) \o value
            /\ int1 < 0 => /\ out' = out
                           /\ diversion_data' = diversion_data
       /\ (pc = "content" /\ pc' = "content" /\ last' # None) =>
            value' = Append(value, last')
       /\ cur_diversion' # cur_diversion => (pc = "content" /\ tag = B_D)]_vars

\* after the stream "D1,1\na\n" a file is being scanned: the current
\* diversion is still 1, buffer 1 holds "a" followed by what the file wrote,
\* and standard output is empty
C13_Witness ==
    /\ input_kind = "File" /\ pc = "process_text"
    /\ inp # <<>>
    /\ cur_diversion = 1
    /\ Len(diversion_data) = 1
    /\ Len(diversion_data[1]) >= 2
    /\ diversion_data[1][1] = 97
    /\ out = <<>>

\* a step that read, at record-scanning level, a byte that is neither
\* comment_start nor a record tag
RawByteRead ==
    /\ pc = "reload_top"
    /\ last' # None
    /\ last' # delimiters.comment_start
    /\ last' \notin {B_V, B_C, B_Q, B_D, B_T, B_F}

\* C14: a byte read at record-scanning level that is neither comment_start
\* nor one of the tags V, C, Q, D, T, F is appended to standard output,
\* whatever the current diversion, and the delimiters, the macro table, the
\* current diversion and the diversion buffers stay as they were.
C14_RawPassthrough ==
    [][RawByteRead => /\ out' = Append(out, last')
                      /\ shared' = shared
                      /\ pc' = "reload_top"]_vars

\* the same with the byte in the encoding print! gives it: for a byte below
\* 128 the byte itself
C14_RawPassthroughEncoded ==
    [][RawByteRead => /\ out' = out \o Utf8Char(last')
                      /\ last' < 128 => out' = Append(out, last')
                      /\ shared' = shared
                      /\ pc' = "reload_top"]_vars

\* a '#' that was no comment start, a C record having moved comment_start,
\* went to standard output
C14_WitnessAscii ==
    /\ pc = "reload_top" /\ last = B_HASH
    /\ delimiters.comment_start # B_HASH
    /\ out # <<>> /\ out[Len(out)] = B_HASH

\* a raw byte went to standard output while a positive diversion was current
C14_WitnessDiverted ==
    /\ pc = "reload_top" /\ last = 233
    /\ cur_diversion > 0
    /\ out # <<>>

\* s is t or a prefix of t
IsPrefixOrEq(s, t) == Len(s) <= Len(t) /\ SubSeq(t, 1, Len(s)) = s

\* C15: diversion_data never gets shorter; after a write with a positive
\* current diversion k it has at least k entries; an entry's content is only
\* ever extended, and only by a write to its diversion; an entry that comes
\* into being without being written to is the empty string.
C15_BuffersGrow ==
    [][/\ Len(diversion_data') >= Len(diversion_data)
       /\ (written' # <<>> /\ cur_diversion' > 0)
            => Len(diversion_data') >= cur_diversion'
       /\ \A i \in 1..Len(diversion_data') :
            /\ i <= Len(diversion_data)
                 => IsPrefixOrEq(diversion_data[i], diversion_data'[i])
            /\ diversion_data'[i] # Buffer(diversion_data, i)
                 => (i = cur_diversion' /\ written' # <<>>)]_vars

\* diversion 10 was written to with the store empty: ten entries, the first
\* nine empty strings
C15_Witness ==
    /\ cur_diversion = 10
    /\ Len(diversion_data) = 10
    /\ diversion_data[10] # <<>>
    /\ \A i \in 1..9 : diversion_data[i] = <<>>

\* diversion 1 was selected after diversion 10: the store keeps its ten entries
C15_WitnessKept ==
    /\ cur_diversion = 1
    /\ Len(diversion_data) = 10

\* C16: main's steps between inputs, the start of an input included, leave
\* the macro table, the current diversion, the diversion buffers and the
\* delimiters as they are; the end of an input leaves the macro table, the
\* current diversion and the delimiters as they are; and the macro table
\* only ever grows at its end, so that a name once bound stays found by
\* lookup.
C16_SharedState ==
    [][/\ pc = "main" => shared' = shared
       /\ pc' = "main" => /\ def_stack' = def_stack
                          /\ cur_diversion' = cur_diversion
                          /\ delimiters' = delimiters
       /\ IsPrefixOrEq(def_stack, def_stack')
       /\ \A n \in BoundNames : Lookup(def_stack', n) # 0]_vars

\* a word of a file matched a binding that a reload-state stream added
C16_Witness ==
    /\ input_kind = "File"
    /\ matches # <<>>
    /\ matches[Len(matches)] >= 2
    /\ def_stack[matches[Len(matches)]].name = <<97>>

\* a file is scanned with the comment_start a reload-state stream set: its
\* byte a has started a comment
C16_WitnessDelimiters ==
    /\ input_kind = "File" /\ pc = "skip_comment"
    /\ delimiters.comment_start = 97
    /\ inp = <<97>>

\* C17: when an input file cannot be opened, every input file named before
\* it has been processed: no File flag is waiting to be run.
C17_InputOrdering ==
    (cur_flag.kind = "OpenFailed" /\ cur_flag.val = "File")
        => \A i \in 1..Len(flags) : flags[i] # "File"

\* the inputs that are run are run in the order given, one at a time: the
\* list of waiting flags changes only in parse_args, which appends, and in
\* main between two inputs, which takes the first
C17_RunInOrder ==
    [][flags' # flags =>
        \/ pc = "parse_args" /\ IsPrefixOrEq(flags, flags')
        \/ pc = "main" /\ flags # <<>> /\ flags' = Tail(flags)]_vars

\* how often the byte b occurs in s
RECURSIVE Count(_, _)
Count(s, b) ==
    IF s = <<>> THEN 0
    ELSE (IF Head(s) = b THEN 1 ELSE 0) + Count(Tail(s), b)

\* the bytes of s
Bytes(s) == {s[i] : i \in 1..Len(s)}

\* C18: a file of bytes below 128 scanned with current diversion 0 puts no
\* input byte on standard output more often than the input holds it.
C18_NoDuplication ==
    (FileDone /\ cur_diversion = 0 /\ \A i \in 1..Len(inp) : inp[i] < 128)
        => \A b \in Bytes(Produced) : Count(Produced, b) <= Count(inp, b)

\* the same for files without a comment-start byte
C18_NoDuplicationPlain ==
    (FileDone /\ cur_diversion = 0 /\ \A i \in 1..Len(inp) : inp[i] < 128
        /\ NoByte(inp, {delimiters.comment_start}))
        => \A b \in Bytes(Produced) : Count(Produced, b) <= Count(inp, b)

\* where the scan of file bytes s ends, started in mode m: "text", "comment"
\* (inside a comment) or "closed" (on the comment_end of a comment)
RECURSIVE ScanMode(_, _)
ScanMode(s, m) ==
    IF s = <<>> THEN m
    ELSE IF m = "comment"
    THEN ScanMode(Tail(s), IF Head(s) = delimiters.comment_end
                           THEN "closed" ELSE "comment")
    ELSE ScanMode(Tail(s), IF Head(s) = delimiters.comment_start
                           THEN "comment" ELSE "text")

\* the word held at the end of a file was resolved before, at a comment, and
\* no byte was added to it since
ResolvedBefore == cur_tok # <<>> /\ ScanMode(inp, "text") # "text"

\* C19: every step of a file's scan reads a byte or meets the end of input;
\* the end of input, inside a comment or not, raises no error and ends the
\* scan; and the word held at the end of input is resolved there like any
\* other word (written unless it is bound), not having been resolved before.
C19_EndOfInput ==
    [][(input_kind = "File" /\ pc \in {"process_text", "skip_comment"}) =>
        /\ last' # None => nread' = nread + 1
        /\ last' = None => status' = "running"
        /\ (pc = "skip_comment" /\ last' = None) => pc' = "process_text"
        /\ (pc = "process_text" /\ last' = None) =>
            /\ pc' = "main"
            /\ written' = IF LastBinding(cur_tok) = 0 THEN <<cur_tok>> ELSE <<>>
            /\ ~ResolvedBefore]_vars

\* the same without the demand that the last word was not resolved before
C19_EndOfInputPermissive ==
    [][(input_kind = "File" /\ pc \in {"process_text", "skip_comment"}) =>
        /\ last' # None => nread' = nread + 1
        /\ last' = None => status' = "running"
        /\ (pc = "skip_comment" /\ last' = None) => pc' = "process_text"
        /\ (pc = "process_text" /\ last' = None) =>
            /\ pc' = "main"
            /\ written' = IF LastBinding(cur_tok) = 0 THEN <<cur_tok>> ELSE <<>>]_vars

\* a file ended inside a comment and its scan has returned to main
C19_WitnessUnterminated ==
    /\ FileDone /\ status = "running"
    /\ inp # <<>>
    /\ ScanMode(inp, "text") = "comment"

\* C20: every byte read at record-scanning level or by the scan of a file is
\* classified with the comment delimiters in force when it is read: a byte
\* equal to comment_start starts a comment, also when it is a record tag, and
\* only such a byte does; a comment ends at comment_end and at no other
\* byte; and a step that assigns a delimiter changes nothing of what was
\* written or accumulated from the bytes read before.
C20_ForwardOnly ==
    [][/\ (pc = "reload_top" /\ last' # None) =>
            /\ last' = delimiters.comment_start
                 => (pc' = "skip_comment" /\ ret' = "reload_top" /\ tag' = tag)
            /\ (last' # delimiters.comment_start /\ last' \in Tags)
                 => (pc' = "read_int" /\ tag' = last')
            /\ (last' # delimiters.comment_start /\ last' = B_V)
                 => pc' = "version"
            /\ (last' # delimiters.comment_start /\ last' \notin Tags \cup {B_V})
                 => (pc' = "reload_top" /\ out' # out)
       /\ (pc = "process_text" /\ last' # None) =>
            ((pc' = "skip_comment") <=> (last' = delimiters.comment_start))
       /\ (pc = "skip_comment" /\ last' # None) =>
            ((pc' = ret) <=> (last' = delimiters.comment_end))
       /\ delimiters' # delimiters =>
            /\ out' = out /\ diversion_data' = diversion_data
            /\ def_stack' = def_stack /\ cur_tok' = cur_tok
            /\ matches' = matches]_vars

\* a C record made T the comment start, and a later T of the same stream has
\* started a comment instead of a record
C20_Witness ==
    /\ input_kind = "ReloadState" /\ pc = "skip_comment"
    /\ delimiters.comment_start = B_T
    /\ last = B_T
    /\ tag = None

\* a C record made the newline the comment start, and the newline of a later
\* file has started a comment instead of being written as whitespace
C20_WitnessFile ==
    /\ input_kind = "File" /\ pc = "skip_comment"
    /\ delimiters.comment_start = B_NL
    /\ inp = <<B_NL>>
    /\ Produced = <<>>
====
